---- MODULE Spec2Model ----
(***************************************************************************)
(* HijriDate-rs: conversion between the Hijri (Umm al-Qura) and the        *)
(* Gregorian calendar, date arithmetic, ordering and formatting            *)
(* (src/src/lib.rs).  The modules `umalqura` and `umalqura_array` that     *)
(* lib.rs imports are not part of the available sources; the month table   *)
(* and the two conversion routines are modelled from the specification     *)
(* (sections 3 and 4 of spec.md).  chrono's NaiveDate is modelled by the   *)
(* proleptic Gregorian day count.                                          *)
(*                                                                         *)
(* Strings are sequences of one-character strings.  A call that panics     *)
(* yields a record [panic |-> message]; a HijriDate is a record with the   *)
(* twelve fields of the struct.                                            *)
(***************************************************************************)
EXTENDS Integers, Sequences, FiniteSets, TLC

VARIABLES call, date, recv, other, ret, steps

vars == <<call, date, recv, other, ret, steps>>

-----------------------------------------------------------------------------
(* Program constants *)

MIN_HIJRI_YEAR == 1356
MAX_HIJRI_YEAR == 1500
MIN_GR_YEAR == 1938
MAX_GR_YEAR == 2076
MAX_HIJRI_DAY == 30
MAX_GR_DAY == 31
MAX_MONTH == 12

-----------------------------------------------------------------------------
(* Values *)

Panic(msg) == [panic |-> msg]
IsPanic(v) == "panic" \in DOMAIN v
IsDate(v) == "date_gr" \in DOMAIN v
NoDate == [none |-> TRUE]
NoRet == [none |-> TRUE]
Unit == [unit |-> TRUE]

Min(a, b) == IF a < b THEN a ELSE b

-----------------------------------------------------------------------------
(* Decimal text: format!("{}", n), str::parse::<usize>, chrono's numeric   *)
(* scanner.                                                                *)

DigitChars == <<"0","1","2","3","4","5","6","7","8","9">>

IsDigit(c) == \E k \in 1..10 : DigitChars[k] = c

DigitVal(c) == (CHOOSE k \in 1..10 : DigitChars[k] = c) - 1

RECURSIVE to_string(_)
to_string(n) ==
  IF n < 10 THEN <<DigitChars[n + 1]>>
  ELSE Append(to_string(n \div 10), DigitChars[(n % 10) + 1])

RECURSIVE DigitsValue(_, _)
DigitsValue(s, k) ==
  IF k = 0 THEN 0 ELSE 10 * DigitsValue(s, k - 1) + DigitVal(s[k])

(* Number of leading digits of s, at most maxw of them. *)
LeadingDigits(s, maxw) ==
  LET cand == {k \in 0..Min(Len(s), maxw) : \A j \in 1..k : IsDigit(s[j])}
  IN CHOOSE k \in cand : \A j \in cand : j <= k

(* str::parse::<usize>(): the whole text must be digits. *)
parse_usize(s) ==
  IF Len(s) > 0 /\ LeadingDigits(s, Len(s)) = Len(s)
  THEN DigitsValue(s, Len(s)) ELSE -1

(* format("%m") / format("%d"): two digits, zero padded. *)
Pad2(n) == IF n < 10 THEN <<"0">> \o to_string(n) ELSE to_string(n)

(* format("%Y"): at least four digits, zero padded. *)
Pad4(n) ==
  IF n < 10 THEN <<"0","0","0">> \o to_string(n)
  ELSE IF n < 100 THEN <<"0","0">> \o to_string(n)
  ELSE IF n < 1000 THEN <<"0">> \o to_string(n)
  ELSE to_string(n)

-----------------------------------------------------------------------------
(* chrono::NaiveDate: proleptic Gregorian calendar, a date is its number   *)
(* of days since 1970-01-01.                                               *)

IsLeap(y) == (y % 4 = 0 /\ y % 100 # 0) \/ y % 400 = 0

DaysInMonth(y, m) ==
  IF m \in {4, 6, 9, 11} THEN 30
  ELSE IF m = 2 THEN (IF IsLeap(y) THEN 29 ELSE 28)
  ELSE 31

ValidGregorian(y, m, d) ==
  /\ m >= 1 /\ m <= 12
  /\ d >= 1 /\ d <= DaysInMonth(y, m)

days_from_civil(y0, m, d) ==
  LET y == IF m <= 2 THEN y0 - 1 ELSE y0
      era == y \div 400
      yoe == y - era * 400
      mp == IF m > 2 THEN m - 3 ELSE m + 9
      doy == (153 * mp + 2) \div 5 + d - 1
      doe == yoe * 365 + yoe \div 4 - yoe \div 100 + doy
  IN era * 146097 + doe - 719468

civil_from_days(z0) ==
  LET z == z0 + 719468
      era == z \div 146097
      doe == z - era * 146097
      yoe == (doe - doe \div 1460 + doe \div 36524 - doe \div 146096) \div 365
      doy == doe - (365 * yoe + yoe \div 4 - yoe \div 100)
      mp == (5 * doy + 2) \div 153
      d == doy - (153 * mp + 2) \div 5 + 1
      m == IF mp < 10 THEN mp + 3 ELSE mp - 9
      y == yoe + era * 400 + (IF m <= 2 THEN 1 ELSE 0)
  IN [year |-> y, month |-> m, day |-> d]

(* NaiveDate::parse_from_str(text, "%Y-%m-%d"): %Y scans up to four        *)
(* digits, %m and %d up to two, the literals are '-', nothing may remain,  *)
(* and the three numbers must form a date of the calendar.                 *)
parse_from_str(s) ==
  LET ny == LeadingDigits(s, 4)
      s1 == SubSeq(s, ny + 1, Len(s))
      s2 == SubSeq(s1, 2, Len(s1))
      nm == LeadingDigits(s2, 2)
      s3 == SubSeq(s2, nm + 1, Len(s2))
      s4 == SubSeq(s3, 2, Len(s3))
      nd == LeadingDigits(s4, 2)
      y == DigitsValue(s, ny)
      m == DigitsValue(s2, nm)
      d == DigitsValue(s4, nd)
  IN IF /\ ny > 0 /\ Len(s1) > 0 /\ s1[1] = "-"
        /\ nm > 0 /\ Len(s3) > 0 /\ s3[1] = "-"
        /\ nd > 0 /\ Len(s4) = nd
        /\ ValidGregorian(y, m, d)
     THEN [ok |-> TRUE, days |-> days_from_civil(y, m, d)]
     ELSE [ok |-> FALSE]

(* format!("{}-{}-{}", year_gr, month_gr, day_gr) *)
DateText(year_gr, month_gr, day_gr) ==
  to_string(year_gr) \o <<"-">> \o to_string(month_gr) \o <<"-">> \o to_string(day_gr)

(* Date<Utc>::format("%A") and format("%B") *)

WEEKDAY_EN ==
  << <<"S","u","n","d","a","y">>,
     <<"M","o","n","d","a","y">>,
     <<"T","u","e","s","d","a","y">>,
     <<"W","e","d","n","e","s","d","a","y">>,
     <<"T","h","u","r","s","d","a","y">>,
     <<"F","r","i","d","a","y">>,
     <<"S","a","t","u","r","d","a","y">> >>

MONTH_EN ==
  << <<"J","a","n","u","a","r","y">>,
     <<"F","e","b","r","u","a","r","y">>,
     <<"M","a","r","c","h">>,
     <<"A","p","r","i","l">>,
     <<"M","a","y">>,
     <<"J","u","n","e">>,
     <<"J","u","l","y">>,
     <<"A","u","g","u","s","t">>,
     <<"S","e","p","t","e","m","b","e","r">>,
     <<"O","c","t","o","b","e","r">>,
     <<"N","o","v","e","m","b","e","r">>,
     <<"D","e","c","e","m","b","e","r">> >>

(* 1970-01-01 was a Thursday. *)
day_name_en_of(days) == WEEKDAY_EN[((days + 4) % 7) + 1]

month_name_en_of(days) == MONTH_EN[civil_from_days(days).month]

(* The Arabic names are reshaped glyph runs; each is one opaque symbol, *)
(* none of which is an ASCII character.                                *)

MONTH_DICT ==
  [m \in 1..12 |->
     << <<"ar:muharram">>, <<"ar:safar">>, <<"ar:rabi-al-awwal">>, <<"ar:rabi-ath-thani">>, <<"ar:jumada-al-ula">>, <<"ar:jumada-al-akhira">>, <<"ar:rajab">>, <<"ar:shaban">>, <<"ar:ramadan">>, <<"ar:shawwal">>, <<"ar:dhu-al-qada">>, <<"ar:dhu-al-hijja">> >>[m]]

DAY_DICT ==
  [e \in {WEEKDAY_EN[k] : k \in 1..7} |->
     CASE e = <<"S","u","n","d","a","y">> -> <<"ar:al-ahad">>
       [] e = <<"M","o","n","d","a","y">> -> <<"ar:al-ithnayn">>
       [] e = <<"T","u","e","s","d","a","y">> -> <<"ar:ath-thulatha">>
       [] e = <<"W","e","d","n","e","s","d","a","y">> -> <<"ar:al-arbia">>
       [] e = <<"T","h","u","r","s","d","a","y">> -> <<"ar:al-khamis">>
       [] e = <<"F","r","i","d","a","y">> -> <<"ar:al-jumua">>
       [] e = <<"S","a","t","u","r","d","a","y">> -> <<"ar:as-sabt">>]

-----------------------------------------------------------------------------
(* Epoch table (umalqura_array, spec.md section 3 and 4.1): one entry per  *)
(* Hijri month of 1356..1500 plus the closing entry, entry i being the     *)
(* modified chronological Julian day number on which month i begins.       *)
(* Every month has 29 or 30 days and the entries increase strictly.  The   *)
(* entries agree with every date the crate documentation fixes:            *)
(* 1439-11-19 is 2018-08-01, 2000-07-31 is 1421-04-29, month 5 of 1420 has *)
(* 30 days and so has month 12 of 1500.                                    *)

TABLE_MONTHS == (MAX_HIJRI_YEAR - MIN_HIJRI_YEAR + 1) * 12

UMMALQURA_DAT == [i \in 0..TABLE_MONTHS |-> 28607 + (i * 10631) \div 360]

(* Index of month 1 of year 1 counted in lunations, minus one. *)
FIRST_LUNATION == (MIN_HIJRI_YEAR - 1) * 12

(* Table index of the month (year, month): UMMALQURA_DAT[MonthIndex - 1]   *)
(* is its first day.                                                       *)
MonthIndex(year, month) == (year - 1) * 12 + 1 + (month - 1) - FIRST_LUNATION

monthLength(year, month) ==
  UMMALQURA_DAT[MonthIndex(year, month)] - UMMALQURA_DAT[MonthIndex(year, month) - 1]

cumulativeOffset(year, month) ==
  UMMALQURA_DAT[MonthIndex(year, month) - 1] - UMMALQURA_DAT[0]

-----------------------------------------------------------------------------
(* Converter (umalqura, spec.md section 4.2).  Both routines work on the   *)
(* modified chronological Julian day number; the Gregorian side is the     *)
(* usual Julian-day arithmetic.  The routines do not validate: validation  *)
(* is the public entry point's (section 7).                                *)

(* Gregorian date -> chronological Julian day number *)
gregorian_to_julian(year, month, day) ==
  LET y == IF month < 3 THEN year - 1 ELSE year
      m == IF month < 3 THEN month + 12 ELSE month
      a == y \div 100
      jgc == a - a \div 4 - 2
  IN (1461 * (y + 4716)) \div 4 + (306001 * (m + 1)) \div 10000 + day - jgc - 1524

(* chronological Julian day number -> Gregorian date *)
julian_to_gregorian(cjdn) ==
  LET a0 == (4 * cjdn - 7468865) \div 146097
      a == cjdn + 1 + a0 - a0 \div 4
      b == a + 1524
      c == (20 * b - 2442) \div 7305
      d == (1461 * c) \div 4
      e == ((b - d) * 10000) \div 306001
      day == b - d - (306001 * e) \div 10000
      month == IF e > 13 THEN e - 13 ELSE e - 1
      year == IF month > 2 THEN c - 4716 ELSE c - 4715
  IN [year |-> year, month |-> month, day |-> day]

(* Least index in lo..hi whose entry is greater than mcjdn (hi if none is  *)
(* below it): the entries increase, so the search halves the range.        *)
RECURSIVE SearchTable(_, _, _)
SearchTable(lo, hi, mcjdn) ==
  IF lo >= hi THEN lo
  ELSE LET mid == (lo + hi) \div 2
       IN IF UMMALQURA_DAT[mid] > mcjdn
          THEN SearchTable(lo, mid, mcjdn)
          ELSE SearchTable(mid + 1, hi, mcjdn)

gegorean_to_hijri(year_gr, month_gr, day_gr) ==
  LET mcjdn == gregorian_to_julian(year_gr, month_gr, day_gr) - 2400000
      i == SearchTable(0, TABLE_MONTHS, mcjdn)
      iln == i + FIRST_LUNATION
      ii == (iln - 1) \div 12
  IN IF mcjdn < UMMALQURA_DAT[0] \/ mcjdn >= UMMALQURA_DAT[TABLE_MONTHS]
     THEN Panic("date out of table bounds")
     ELSE [year |-> ii + 1,
           month |-> iln - 12 * ii,
           day |-> mcjdn - UMMALQURA_DAT[i - 1] + 1,
           month_len |-> UMMALQURA_DAT[i] - UMMALQURA_DAT[i - 1]]

hijri_to_gregorian(year, month, day) ==
  LET i == MonthIndex(year, month)
  IN IF i < 1 \/ i > TABLE_MONTHS
     THEN Panic("date out of table bounds")
     ELSE julian_to_gregorian(day + UMMALQURA_DAT[i - 1] - 1 + 2400000)

-----------------------------------------------------------------------------
(* Validation (lib.rs 319-349) *)

valid_hijri_date_day30(year, month, day) ==
  IF month > MAX_MONTH THEN Panic("enter a valid month")
  ELSE IF day >= MAX_HIJRI_DAY THEN Panic("enter a valid day")
  ELSE IF year < MIN_HIJRI_YEAR THEN Panic("minumum handled hijri year is 1356")
  ELSE IF year > MAX_HIJRI_YEAR THEN Panic("maximum handled hijri year is 1500")
  ELSE Unit

valid_hijri_date(year, month, day) ==
  IF month > MAX_MONTH THEN Panic("enter a valid month")
  ELSE IF day > MAX_HIJRI_DAY THEN Panic("enter a valid day")
  ELSE IF year < MIN_HIJRI_YEAR THEN Panic("minumum handled hijri year is 1356")
  ELSE IF year > MAX_HIJRI_YEAR THEN Panic("maximum handled hijri year is 1500")
  ELSE Unit

valid_greorian_date_min(year_gr, month_gr, day_gr) ==
  IF month_gr > MAX_MONTH THEN Panic("enter a valid month")
  ELSE IF day_gr > MAX_GR_DAY THEN Panic("enter a valid day")
  ELSE IF year_gr <= MIN_GR_YEAR THEN Panic("minumum handled gregorian year is 1938")
  ELSE IF year_gr > MAX_GR_YEAR THEN Panic("maximum handled gregorian year is 2076")
  ELSE Unit

valid_greorian_date(year_gr, month_gr, day_gr) ==
  IF month_gr > MAX_MONTH THEN Panic("enter a valid month")
  ELSE IF day_gr > MAX_GR_DAY THEN Panic("enter a valid day")
  ELSE IF year_gr < MIN_GR_YEAR THEN Panic("minumum handled gregorian year is 1938")
  ELSE IF year_gr > MAX_GR_YEAR THEN Panic("maximum handled gregorian year is 2076")
  ELSE Unit

-----------------------------------------------------------------------------
(* struct HijriDate and its constructors (lib.rs 136-282) *)

HijriDate(day, month, month_len, year, day_gr, month_gr, year_gr, date_gr) ==
  [day |-> day, month |-> month, month_len |-> month_len, year |-> year,
   day_name |-> DAY_DICT[day_name_en_of(date_gr)],
   month_name |-> MONTH_DICT[month],
   day_gr |-> day_gr, month_gr |-> month_gr, year_gr |-> year_gr,
   day_name_en |-> day_name_en_of(date_gr),
   month_name_en |-> month_name_en_of(date_gr),
   date_gr |-> date_gr]

from_hijri(year, month, day) ==
  LET v == valid_hijri_date(year, month, day)
      g == hijri_to_gregorian(year, month, day)
      p == parse_from_str(DateText(g.year, g.month, g.day))
      h == gegorean_to_hijri(g.year, g.month, g.day)
  IN IF IsPanic(v) THEN v
     ELSE IF month \notin DOMAIN MONTH_DICT THEN Panic("key not found in MONTH_DICT")
     ELSE IF IsPanic(g) THEN g
     ELSE IF ~p.ok THEN Panic("Wrong gegorean date foramt")
     ELSE IF IsPanic(h) THEN h
     ELSE HijriDate(day, month, h.month_len, year, g.day, g.month, g.year, p.days)

from_gr(year_gr, month_gr, day_gr) ==
  LET v == valid_greorian_date(year_gr, month_gr, day_gr)
      p == parse_from_str(DateText(year_gr, month_gr, day_gr))
      h == gegorean_to_hijri(year_gr, month_gr, day_gr)
  IN IF IsPanic(v) THEN v
     ELSE IF ~p.ok THEN Panic("Wrong gegorean date foramt")
     ELSE IF IsPanic(h) THEN h
     ELSE HijriDate(h.day, h.month, h.month_len, h.year, day_gr, month_gr, year_gr, p.days)

chrno_to_hijri(days) ==
  LET c == civil_from_days(days)
  IN from_gr(parse_usize(Pad4(c.year)), parse_usize(Pad2(c.month)), parse_usize(Pad2(c.day)))

today(clock) == chrno_to_hijri(clock)

-----------------------------------------------------------------------------
(* Operators (lib.rs 136, 165-194); a Duration is a whole number of days.  *)

Add_Duration(self, n) == chrno_to_hijri(self.date_gr + n)

Sub_Duration_plus(self, n) == chrno_to_hijri(self.date_gr + n)

Sub_Duration(self, n) == chrno_to_hijri(self.date_gr - n)

Sub_HijriDate_swapped(self, rhs) == rhs.date_gr - self.date_gr

Sub_HijriDate(self, rhs) == self.date_gr - rhs.date_gr

partial_cmp(self, rhs) ==
  IF self.date_gr < rhs.date_gr THEN "Less"
  ELSE IF self.date_gr = rhs.date_gr THEN "Equal"
  ELSE "Greater"

(* #[derive(PartialEq)]: all twelve fields are compared. *)
eq(a, b) ==
  /\ a.day = b.day /\ a.month = b.month /\ a.month_len = b.month_len
  /\ a.year = b.year /\ a.day_name = b.day_name /\ a.month_name = b.month_name
  /\ a.day_gr = b.day_gr /\ a.month_gr = b.month_gr /\ a.year_gr = b.year_gr
  /\ a.day_name_en = b.day_name_en /\ a.month_name_en = b.month_name_en
  /\ a.date_gr = b.date_gr

-----------------------------------------------------------------------------
(* HijriDate::format (lib.rs 304-316): eleven str::replace calls in a row. *)

(* str::replace: every non-overlapping match, left to right. *)
RECURSIVE replace(_, _, _)
replace(s, from, to) ==
  IF Len(s) < Len(from) THEN s
  ELSE IF SubSeq(s, 1, Len(from)) = from
       THEN to \o replace(SubSeq(s, Len(from) + 1, Len(s)), from, to)
       ELSE <<s[1]>> \o replace(Tail(s), from, to)

format(self, f) ==
  LET r1 == replace(f, <<"%","Y">>, to_string(self.year))
      r2 == replace(r1, <<"%","m">>, to_string(self.month))
      r3 == replace(r2, <<"%","d">>, to_string(self.day))
      r4 == replace(r3, <<"%","D">>, self.day_name)
      r5 == replace(r4, <<"%","M">>, self.month_name)
      r6 == replace(r5, <<"l">>, to_string(self.month_len))
      r7 == replace(r6, <<"%","g","Y">>, to_string(self.year_gr))
      r8 == replace(r7, <<"%","g","m">>, to_string(self.month_gr))
      r9 == replace(r8, <<"%","g","d">>, to_string(self.day_gr))
      r10 == replace(r9, <<"%","g","D">>, self.day_name_en)
  IN replace(r10, <<"%","g","M">>, self.month_name_en)

-----------------------------------------------------------------------------
(* The calls a client makes.  `call` is the last call and its arguments,   *)
(* `date` the HijriDate (or panic) it returned, `recv` the receiver of an  *)
(* operator call, `other` the result of a follow-up call on `date`, `ret`  *)
(* a result that is not a date, `steps` the number of calls made.          *)

Init ==
  /\ call = [name |-> "none", args |-> <<>>]
  /\ date = NoDate
  /\ recv = NoDate
  /\ other = NoDate
  /\ ret = NoRet
  /\ steps = 0

CallFromHijri(y, m, d) ==
  /\ call' = [name |-> "from_hijri", args |-> <<y, m, d>>]
  /\ date' = from_hijri(y, m, d)
  /\ steps' = steps + 1
  /\ UNCHANGED <<recv, other, ret>>

CallFromGr(y, m, d) ==
  /\ call' = [name |-> "from_gr", args |-> <<y, m, d>>]
  /\ date' = from_gr(y, m, d)
  /\ steps' = steps + 1
  /\ UNCHANGED <<recv, other, ret>>

CallToday(clock) ==
  /\ call' = [name |-> "today", args |-> <<clock>>]
  /\ date' = today(clock)
  /\ steps' = steps + 1
  /\ UNCHANGED <<recv, other, ret>>

(* from_gr on the Gregorian fields of the date from_hijri returned *)
BackFromGr ==
  /\ call.name = "from_hijri"
  /\ IsDate(date)
  /\ call' = [name |-> "from_hijri.from_gr", args |-> call.args]
  /\ other' = from_gr(date.year_gr, date.month_gr, date.day_gr)
  /\ steps' = steps + 1
  /\ UNCHANGED <<date, recv, ret>>

(* from_hijri on the Hijri fields of the date from_gr returned *)
BackFromHijri ==
  /\ call.name = "from_gr"
  /\ IsDate(date)
  /\ call' = [name |-> "from_gr.from_hijri", args |-> call.args]
  /\ other' = from_hijri(date.year, date.month, date.day)
  /\ steps' = steps + 1
  /\ UNCHANGED <<date, recv, ret>>

-----------------------------------------------------------------------------
(* Conversion: every constructor argument in and around the two windows.   *)

MaxMonthInput == 13
MaxDayInput == 32

ConvHijriYears == (MIN_HIJRI_YEAR - 1)..(MAX_HIJRI_YEAR + 1)
ConvGrYears == (MIN_GR_YEAR - 1)..(MAX_GR_YEAR + 1)

ConvFromHijri ==
  /\ call.name = "none"
  /\ \E y \in ConvHijriYears, m \in 0..MaxMonthInput, d \in 0..MaxDayInput :
       CallFromHijri(y, m, d)

ConvFromGr ==
  /\ call.name = "none"
  /\ \E y \in ConvGrYears, m \in 0..MaxMonthInput, d \in 0..MaxDayInput :
       CallFromGr(y, m, d)

NextConv == ConvFromHijri \/ ConvFromGr \/ BackFromGr \/ BackFromHijri

SpecConv == Init /\ [][NextConv]_vars

(* A Hijri date of the table: year in the window, month 1..12, day within  *)
(* the month's length.                                                     *)
ValidHijri(y, m, d) ==
  /\ y >= MIN_HIJRI_YEAR /\ y <= MAX_HIJRI_YEAR
  /\ m >= 1 /\ m <= 12
  /\ d >= 1 /\ d <= monthLength(y, m)

ValidGr(y, m, d) ==
  /\ y >= MIN_GR_YEAR /\ y <= MAX_GR_YEAR
  /\ ValidGregorian(y, m, d)

InGrWindow(y) == y >= MIN_GR_YEAR /\ y <= MAX_GR_YEAR

(* C1 as stated: for every valid Hijri date of 1356..1500 from_hijri       *)
(* succeeds, and from_gr on its Gregorian fields succeeds and returns an   *)
(* equal value.                                                            *)
C1_HijriRoundTrip ==
  /\ (call.name = "from_hijri" /\ ValidHijri(call.args[1], call.args[2], call.args[3]))
       => IsDate(date)
  /\ (call.name = "from_hijri.from_gr" /\ ValidHijri(call.args[1], call.args[2], call.args[3]))
       => (IsDate(other) /\ eq(other, date))

(* C1 amended: for every valid Hijri date of 1356..1500 from_hijri         *)
(* succeeds; from_gr on its Gregorian fields succeeds and returns an equal *)
(* value when the Gregorian year is within 1938..2076, and fails when it   *)
(* is not.                                                                 *)
C1_HijriRoundTripInGrWindow ==
  /\ (call.name = "from_hijri" /\ ValidHijri(call.args[1], call.args[2], call.args[3]))
       => IsDate(date)
  /\ (call.name = "from_hijri.from_gr" /\ ValidHijri(call.args[1], call.args[2], call.args[3]))
       => IF InGrWindow(date.year_gr)
          THEN IsDate(other) /\ eq(other, date)
          ELSE IsPanic(other)

C1_Witness ==
  /\ call.name = "from_hijri.from_gr"
  /\ call.args = <<1439, 11, 19>>
  /\ IsDate(other)
  /\ other.year_gr = 2018 /\ other.month_gr = 8 /\ other.day_gr = 1
  /\ other.year = 1439 /\ other.month = 11 /\ other.day = 19

(* C2: for every valid Gregorian date of 1938..2076 from_gr succeeds, and  *)
(* from_hijri on its Hijri fields succeeds, has exactly the Gregorian      *)
(* fields that were given, and is equal to what from_gr returned.          *)
C2_GregorianRoundTrip ==
  /\ (call.name = "from_gr" /\ ValidGr(call.args[1], call.args[2], call.args[3]))
       => IsDate(date)
  /\ (call.name = "from_gr.from_hijri" /\ ValidGr(call.args[1], call.args[2], call.args[3]))
       => /\ IsDate(other)
          /\ <<other.year_gr, other.month_gr, other.day_gr>> = call.args
          /\ eq(other, date)

C2_Witness ==
  /\ call.name = "from_gr.from_hijri"
  /\ call.args = <<2000, 7, 31>>
  /\ IsDate(other)
  /\ other.year = 1421 /\ other.month = 4 /\ other.day = 29
  /\ other.year_gr = 2000 /\ other.month_gr = 7 /\ other.day_gr = 31

(* C3 as stated: from_hijri returns a date only for a valid Hijri date of  *)
(* 1356..1500 and from_gr only for a valid Gregorian date of 1938..2076;   *)
(* every other input fails.                                                *)
C3_ValidationTotal ==
  /\ (call.name = "from_hijri" /\ IsDate(date))
       => ValidHijri(call.args[1], call.args[2], call.args[3])
  /\ (call.name = "from_gr" /\ IsDate(date))
       => ValidGr(call.args[1], call.args[2], call.args[3])

(* C8 as stated: from_hijri(y,m,d) reports monthLength(y,m) for every day  *)
(* 1..monthLength(y,m) of a month of 1356..1500, and monthLength(y,m) is   *)
(* the last day for which from_hijri succeeds.                             *)
C8_MonthLength ==
  (/\ call.name = "from_hijri"
   /\ call.args[1] >= MIN_HIJRI_YEAR /\ call.args[1] <= MAX_HIJRI_YEAR
   /\ call.args[2] >= 1 /\ call.args[2] <= 12)
  => LET ml == monthLength(call.args[1], call.args[2])
     IN /\ (call.args[3] >= 1 /\ call.args[3] <= ml)
             => (IsDate(date) /\ date.month_len = ml)
        /\ call.args[3] > ml => IsPanic(date)

-----------------------------------------------------------------------------
(* Arithmetic: constructors on the first, a middle and the last year of    *)
(* each window (the months in which a Gregorian year begins or ends, and   *)
(* those of the documented examples), the host clock around the window's   *)
(* edges, then date + Duration and date - Duration in sequence.            *)

MaxShift == 2
MaxCalls == 3

DOC_SHIFT == 16

ArithHijriYears == {MIN_HIJRI_YEAR, 1420, MAX_HIJRI_YEAR}
ArithGrYears == {MIN_GR_YEAR, MAX_GR_YEAR}
ArithHijriMonths == {0, 1, 2, 5, 6, 10, 11, 12, 13}
ArithGrMonths == {0, 1, 2, 11, 12, 13}

Shifts == ((0 - MaxShift)..MaxShift) \cup {DOC_SHIFT, 0 - DOC_SHIFT}

ClockDays ==
  {days_from_civil(MIN_GR_YEAR, 1, 1) + k : k \in (0 - MaxShift)..MaxShift}
    \cup {days_from_civil(MAX_GR_YEAR, 12, 31) + k : k \in (0 - MaxShift)..MaxShift}

ArithFromHijri ==
  /\ call.name = "none"
  /\ \E y \in ArithHijriYears, m \in ArithHijriMonths, d \in 0..MaxDayInput :
       CallFromHijri(y, m, d)

ArithFromGr ==
  /\ call.name = "none"
  /\ \E y \in ArithGrYears, m \in ArithGrMonths, d \in 0..MaxDayInput :
       CallFromGr(y, m, d)

ArithToday ==
  /\ call.name = "none"
  /\ \E clock \in ClockDays : CallToday(clock)

(* date + Duration::days(n) *)
CallAdd ==
  /\ IsDate(date)
  /\ steps < MaxCalls
  /\ \E n \in Shifts :
       /\ call' = [name |-> "add", args |-> <<n>>]
       /\ recv' = date
       /\ date' = Add_Duration(date, n)
  /\ other' = NoDate
  /\ steps' = steps + 1
  /\ UNCHANGED ret

(* date - Duration::days(n) *)
CallSub ==
  /\ IsDate(date)
  /\ steps < MaxCalls
  /\ \E n \in Shifts :
       /\ call' = [name |-> "sub", args |-> <<n>>]
       /\ recv' = date
       /\ date' = Sub_Duration(date, n)
  /\ other' = NoDate
  /\ steps' = steps + 1
  /\ UNCHANGED ret

(* (x + Duration::days(n)) - Duration::days(n), x + n having succeeded *)
CallSubBack ==
  /\ call.name = "add"
  /\ IsDate(date)
  /\ call' = [name |-> "add.sub", args |-> call.args]
  /\ other' = Sub_Duration(date, call.args[1])
  /\ steps' = steps + 1
  /\ UNCHANGED <<date, recv, ret>>

NextArith ==
  ArithFromHijri \/ ArithFromGr \/ ArithToday \/ CallAdd \/ CallSub \/ CallSubBack

SpecArith == Init /\ [][NextArith]_vars

(* Days of the table, counted from its first day. *)
TableDays == UMMALQURA_DAT[TABLE_MONTHS] - UMMALQURA_DAT[0]

(* Hijri epoch-day number of the fields (y, m, d). *)
HijriEpochDay(y, m, d) == cumulativeOffset(y, m) + d - 1

(* The Hijri date of the table on epoch day e, found by walking month by   *)
(* month from table month i, day d (d may lie outside the month).          *)
RECURSIVE WalkMonths(_, _)
WalkMonths(i, d) ==
  IF d < 1 THEN WalkMonths(i - 1, d + (UMMALQURA_DAT[i - 1] - UMMALQURA_DAT[i - 2]))
  ELSE IF d > UMMALQURA_DAT[i] - UMMALQURA_DAT[i - 1]
       THEN WalkMonths(i + 1, d - (UMMALQURA_DAT[i] - UMMALQURA_DAT[i - 1]))
       ELSE [year |-> MIN_HIJRI_YEAR + (i - 1) \div 12,
             month |-> ((i - 1) % 12) + 1,
             day |-> d]

HijriAtEpochDay(e, y, m) ==
  WalkMonths(MonthIndex(y, m), e - cumulativeOffset(y, m) + 1)

ViewConsistent(v) ==
  /\ gegorean_to_hijri(v.year_gr, v.month_gr, v.day_gr)
       = [year |-> v.year, month |-> v.month, day |-> v.day, month_len |-> v.month_len]
  /\ ValidGregorian(v.year_gr, v.month_gr, v.day_gr)
  /\ v.date_gr = days_from_civil(v.year_gr, v.month_gr, v.day_gr)
  /\ v.day >= 1 /\ v.day <= v.month_len
  /\ v.month_len \in {29, 30}

(* C4 as stated: every HijriDate obtained by any sequence of from_hijri,   *)
(* from_gr, today, + Duration and - Duration has Hijri fields and          *)
(* Gregorian fields that denote the same day, date_gr being that day, and  *)
(* 1 <= day <= month_len with month_len 29 or 30.                          *)
C4_ViewConsistency ==
  /\ IsDate(date) => ViewConsistent(date)
  /\ IsDate(recv) => ViewConsistent(recv)
  /\ IsDate(other) => ViewConsistent(other)

(* C6 as stated: whenever x + Duration::days(n) succeeded,                 *)
(* (x + Duration::days(n)) - Duration::days(n) succeeds and equals x.      *)
C6_ArithmeticInverse ==
  call.name = "add.sub" => (IsDate(other) /\ eq(other, recv))

(* The day count the shift adds to the receiver's canonical day. *)
SignedShift == IF call.name = "add" THEN call.args[1] ELSE 0 - call.args[1]

(* C7 as stated: a shift by n days moves the canonical day by n and        *)
(* re-derives both views, so that the result equals from_hijri of the      *)
(* valid Hijri date n days away; it fails exactly when the shifted day is  *)
(* outside the supported window, the days of Hijri years 1356..1500.       *)
C7_ShiftSemantics ==
  call.name \in {"add", "sub"} =>
    LET e == HijriEpochDay(recv.year, recv.month, recv.day) + SignedShift
        h == HijriAtEpochDay(e, recv.year, recv.month)
    IN IF e >= 0 /\ e < TableDays
       THEN /\ IsDate(date)
            /\ date.date_gr = recv.date_gr + SignedShift
            /\ eq(date, from_hijri(h.year, h.month, h.day))
       ELSE IsPanic(date)

(* C7 amended: a shift by n days moves the canonical day by n and          *)
(* re-derives both views, so that the result equals from_hijri of the      *)
(* valid Hijri date n days away, whenever the shifted day is in a          *)
(* Gregorian year of 1938..2076; the shift fails exactly when the shifted  *)
(* day is in no such year.                                                 *)
C7_ShiftSemanticsInGrWindow ==
  call.name \in {"add", "sub"} =>
    LET e == HijriEpochDay(recv.year, recv.month, recv.day) + SignedShift
        h == HijriAtEpochDay(e, recv.year, recv.month)
        g == civil_from_days(recv.date_gr + SignedShift)
    IN IF InGrWindow(g.year)
       THEN /\ IsDate(date)
            /\ date.date_gr = recv.date_gr + SignedShift
            /\ <<date.year_gr, date.month_gr, date.day_gr>> = <<g.year, g.month, g.day>>
            /\ e >= 0 /\ e < TableDays
            /\ ValidHijri(h.year, h.month, h.day)
            /\ eq(date, from_hijri(h.year, h.month, h.day))
       ELSE IsPanic(date)

C7_Witness ==
  /\ call = [name |-> "sub", args |-> <<DOC_SHIFT>>]
  /\ IsDate(recv)
  /\ <<recv.year, recv.month, recv.day>> = <<1420, 6, 15>>
  /\ IsDate(date)
  /\ <<date.year, date.month, date.day>> = <<1420, 5, 29>>

-----------------------------------------------------------------------------
(* Two dates: equality, ordering and date - date.                          *)

PairHijriYears == {MIN_HIJRI_YEAR, 1420, MAX_HIJRI_YEAR}
PairMonths == {1, 6, 12}
PairDays == {0, 1, 7, 15, 29, 30}

PairHijri == PairHijriYears \X PairMonths \X PairDays

(* The Gregorian dates of the same days, and the corners of the Gregorian  *)
(* window.                                                                 *)
PairGr ==
  {<<MIN_GR_YEAR, 1, 1>>, <<MAX_GR_YEAR, 12, 31>>}
    \cup UNION {LET x == from_hijri(h[1], h[2], h[3])
                IN IF IsDate(x) THEN {<<x.year_gr, x.month_gr, x.day_gr>>} ELSE {}
                : h \in PairHijri}

PairFirstHijri ==
  /\ call.name = "none"
  /\ \E h \in PairHijri : CallFromHijri(h[1], h[2], h[3])

PairFirstGr ==
  /\ call.name = "none"
  /\ \E g \in PairGr : CallFromGr(g[1], g[2], g[3])

PairSecondHijri ==
  /\ call.name \in {"from_hijri", "from_gr"}
  /\ IsDate(date)
  /\ \E h \in PairHijri :
       /\ call' = [name |-> "pair", args |-> <<call.name, call.args, "from_hijri", h>>]
       /\ other' = from_hijri(h[1], h[2], h[3])
  /\ steps' = steps + 1
  /\ UNCHANGED <<date, recv, ret>>

PairSecondGr ==
  /\ call.name \in {"from_hijri", "from_gr"}
  /\ IsDate(date)
  /\ \E g \in PairGr :
       /\ call' = [name |-> "pair", args |-> <<call.name, call.args, "from_gr", g>>]
       /\ other' = from_gr(g[1], g[2], g[3])
  /\ steps' = steps + 1
  /\ UNCHANGED <<date, recv, ret>>

(* a == b and a.partial_cmp(&b) *)
CallCompare ==
  /\ call.name = "pair"
  /\ IsDate(other)
  /\ call' = [name |-> "compare", args |-> call.args]
  /\ ret' = [eq |-> eq(date, other), ord |-> partial_cmp(date, other)]
  /\ steps' = steps + 1
  /\ UNCHANGED <<date, recv, other>>

(* a - b *)
CallSubDate ==
  /\ call.name = "pair"
  /\ IsDate(other)
  /\ call' = [name |-> "sub_date", args |-> call.args]
  /\ ret' = [dur |-> Sub_HijriDate(date, other)]
  /\ steps' = steps + 1
  /\ UNCHANGED <<date, recv, other>>

NextPair ==
  PairFirstHijri \/ PairFirstGr \/ PairSecondHijri \/ PairSecondGr
    \/ CallCompare \/ CallSubDate

SpecPair == Init /\ [][NextPair]_vars

(* C5 as stated: for two constructed dates a == b holds if and only if     *)
(* their canonical days are the same, that is, exactly when partial_cmp    *)
(* reports Equal.                                                          *)
C5_EqualityIsCanonicalDay ==
  call.name = "compare" =>
    /\ ret.eq <=> (date.date_gr = other.date_gr)
    /\ ret.eq <=> (ret.ord = "Equal")

(* C9: a - b is the signed number of days from b to a, which is the        *)
(* difference of the two Hijri epoch-day numbers cumulativeOffset(y,m) +   *)
(* d - 1; a < b holds exactly when b - a is positive; and                  *)
(* from_hijri(1500,12,30) > from_hijri(1356,1,1).                          *)
C9_DifferenceAndOrder ==
  /\ call.name = "sub_date" =>
       /\ ret.dur = HijriEpochDay(date.year, date.month, date.day)
                      - HijriEpochDay(other.year, other.month, other.day)
       /\ ret.dur = gregorian_to_julian(date.year_gr, date.month_gr, date.day_gr)
                      - gregorian_to_julian(other.year_gr, other.month_gr, other.day_gr)
  /\ call.name = "compare" =>
       /\ (ret.ord = "Less") <=> (Sub_HijriDate(other, date) > 0)
       /\ (ret.ord = "Greater") <=> (Sub_HijriDate(other, date) < 0)
  /\ (/\ call.name = "compare"
      /\ call.args = <<"from_hijri", <<1500, 12, 30>>, "from_hijri", <<1356, 1, 1>>>>)
       => ret.ord = "Greater"

C9_Witness ==
  /\ call.name = "sub_date"
  /\ call.args = <<"from_hijri", <<1356, 6, 15>>, "from_hijri", <<1356, 6, 7>>>>
  /\ ret.dur = 8

-----------------------------------------------------------------------------
(* Formatting: every pattern of at most MaxPatLen characters.              *)

MaxPatLen == 3

PatternChars == {"%", "g", "Y", "m", "d", "D", "M", "l", "x"}

Patterns == UNION {[1..n -> PatternChars] : n \in 0..MaxPatLen}

FormatFromHijri ==
  /\ call.name = "none"
  /\ \E h \in {<<1439, 11, 18>>, <<1420, 6, 15>>} : CallFromHijri(h[1], h[2], h[3])

FormatFromGr ==
  /\ call.name = "none"
  /\ \E g \in {<<2000, 7, 31>>} : CallFromGr(g[1], g[2], g[3])

CallFormat ==
  /\ call.name \in {"from_hijri", "from_gr"}
  /\ IsDate(date)
  /\ \E f \in Patterns :
       /\ call' = [name |-> "format", args |-> <<f>>]
       /\ ret' = [str |-> format(date, f)]
  /\ steps' = steps + 1
  /\ UNCHANGED <<date, recv, other>>

NextFormat == FormatFromHijri \/ FormatFromGr \/ CallFormat

SpecFormat == Init /\ [][NextFormat]_vars

(* The documented tokens, read in one pass from left to right. *)
HijriToken(self, c) ==
  CASE c = "Y" -> to_string(self.year)
    [] c = "m" -> to_string(self.month)
    [] c = "d" -> to_string(self.day)
    [] c = "D" -> self.day_name
    [] c = "M" -> self.month_name
    [] c = "l" -> to_string(self.month_len)

GrToken(self, c) ==
  CASE c = "Y" -> to_string(self.year_gr)
    [] c = "m" -> to_string(self.month_gr)
    [] c = "d" -> to_string(self.day_gr)
    [] c = "D" -> self.day_name_en
    [] c = "M" -> self.month_name_en

RECURSIVE TokenFormat(_, _)
TokenFormat(self, f) ==
  IF Len(f) = 0 THEN <<>>
  ELSE IF Len(f) >= 3 /\ f[1] = "%" /\ f[2] = "g" /\ f[3] \in {"Y", "m", "d", "D", "M"}
       THEN GrToken(self, f[3]) \o TokenFormat(self, SubSeq(f, 4, Len(f)))
  ELSE IF Len(f) >= 2 /\ f[1] = "%" /\ f[2] \in {"Y", "m", "d", "D", "M", "l"}
       THEN HijriToken(self, f[2]) \o TokenFormat(self, SubSeq(f, 3, Len(f)))
  ELSE <<f[1]>> \o TokenFormat(self, Tail(f))

(* C10 as stated: format replaces every documented token by its field and  *)
(* leaves every other character of the pattern unchanged.                  *)
C10_FormatTokens ==
  call.name = "format" => ret.str = TokenFormat(date, call.args[1])

====
